---- MODULE Spec2Model ----
(***************************************************************************)
(* CardMaster: the user CRUD handlers of app.js.  The file holds two       *)
(* variants of the application: the durable one (mongoose model, lines     *)
(* 1-97) and the ephemeral one (in-memory list `users` and the counter     *)
(* `userIdCounter`, lines 98-452).                                         *)
(*                                                                         *)
(* JavaScript strings are sequences of one-character strings, so that      *)
(* trim(), toLowerCase(), toString(), RegExp.test() and new URL() are      *)
(* computed character by character.  Array indices are 1-based; findIndex  *)
(* answers 0 where JavaScript answers -1.                                  *)
(***************************************************************************)
EXTENDS Integers, Sequences, FiniteSets, TLC

VARIABLES users, userIdCounter, req, res, retired

vars == <<users, userIdCounter, req, res, retired>>

(* ---------------- bounds ---------------- *)

\* create is accepted only while the id counter is below this value
MaxCounter == 5

(* ---------------- JavaScript values ---------------- *)

\* a request field: undefined, a string, or a truthy non-string (a number)
Undefined == [k |-> "undefined", s |-> <<>>]

Num == [k |-> "number", s |-> <<>>]

Str(s) == [k |-> "string", s |-> s]

\* JavaScript truthiness of a field value: `!name` is true for undefined and ""
Truthy(v) == \/ v.k = "number"
             \/ v.k = "string" /\ Len(v.s) > 0

UpperCase ==
    <<"A", "B", "C", "D", "E", "F", "G", "H", "I", "J", "K", "L", "M",
      "N", "O", "P", "Q", "R", "S", "T", "U", "V", "W", "X", "Y", "Z">>

LowerCase ==
    <<"a", "b", "c", "d", "e", "f", "g", "h", "i", "j", "k", "l", "m",
      "n", "o", "p", "q", "r", "s", "t", "u", "v", "w", "x", "y", "z">>

Digits == <<"0", "1", "2", "3", "4", "5", "6", "7", "8", "9">>

Range(f) == {f[i] : i \in DOMAIN f}

LowerChar(c) ==
    IF \E i \in 1..26 : UpperCase[i] = c
    THEN LowerCase[CHOOSE i \in 1..26 : UpperCase[i] = c]
    ELSE c

\* String.prototype.toLowerCase
toLowerCase(s) == [i \in 1..Len(s) |-> LowerChar(s[i])]

\* the characters matched by \s, which are the ones trim() strips
IsSpace(c) == c \in {" ", "\t", "\n"}

\* String.prototype.trim
trim(s) ==
    IF \A i \in 1..Len(s) : IsSpace(s[i])
    THEN <<>>
    ELSE LET first == CHOOSE i \in 1..Len(s) :
                          /\ ~IsSpace(s[i])
                          /\ \A j \in 1..(i - 1) : IsSpace(s[j])
             last  == CHOOSE i \in 1..Len(s) :
                          /\ ~IsSpace(s[i])
                          /\ \A j \in (i + 1)..Len(s) : IsSpace(s[j])
         IN  SubSeq(s, first, last)

RECURSIVE toString(_)
\* Number.prototype.toString for a non-negative integer
toString(n) ==
    IF n < 10 THEN <<Digits[n + 1]>>
    ELSE toString(n \div 10) \o <<Digits[(n % 10) + 1]>>

\* String(v), the coercion RegExp.test applies to its argument
ToJSString(v) ==
    IF v.k = "string" THEN v.s
    ELSE IF v.k = "number" THEN <<"7">>
    ELSE <<"u", "n", "d", "e", "f", "i", "n", "e", "d">>

\* [^\s@]
NotSpaceAt(c) == ~IsSpace(c) /\ c # "@"

\* /^[^\s@]+@[^\s@]+\.[^\s@]+$/.test(v)
emailRegex(v) ==
    LET s == ToJSString(v)
    IN  \E i \in 1..Len(s) : \E j \in 1..Len(s) :
            /\ 1 < i /\ i + 1 < j /\ j < Len(s)
            /\ s[i] = "@" /\ s[j] = "."
            /\ \A k \in 1..(i - 1) : NotSpaceAt(s[k])
            /\ \A k \in (i + 1)..(j - 1) : NotSpaceAt(s[k])
            /\ \A k \in (j + 1)..Len(s) : NotSpaceAt(s[k])

IsAlpha(c) == c \in Range(UpperCase) \cup Range(LowerCase)

IsSchemeChar(c) == IsAlpha(c) \/ c \in Range(Digits) \/ c \in {"+", "-", "."}

SpecialSchemes ==
    { <<"h", "t", "t", "p">>, <<"h", "t", "t", "p", "s">>,
      <<"f", "t", "p">>, <<"w", "s">>, <<"w", "s", "s">> }

\* new URL(s) without a base: TRUE when it returns, FALSE when it throws.
\* A URL needs a scheme (a letter, then letters, digits, + - .) and a colon;
\* a special scheme also needs a non-empty host free of spaces after the
\* slashes, any other scheme takes the rest as it is.
UrlParses(s) ==
    \E c \in 1..Len(s) :
        /\ s[c] = ":"
        /\ \A k \in 1..(c - 1) : s[k] # ":"
        /\ c > 1
        /\ IsAlpha(s[1])
        /\ \A k \in 2..(c - 1) : IsSchemeChar(s[k])
        /\ toLowerCase(SubSeq(s, 1, c - 1)) \in SpecialSchemes =>
              \E h \in (c + 1)..Len(s) :
                  /\ \A k \in (c + 1)..(h - 1) : s[k] \in {"/", "\\"}
                  /\ s[h] \notin {"/", "\\", "?", "#", " ", ":", "@"}
                  /\ \A k \in h..Len(s) :
                        (\A m \in h..k : s[m] \notin {"/", "\\", "?", "#"})
                            => s[k] # " "

(* ---------------- seed data ---------------- *)

SeedName1 ==
    <<"D", "a", "k", "s", "h", " ", "S", "h", "a", "r", "m", "a">>

SeedEmail1 ==
    <<"d", "a", "k", "s", "h", "s", "1", "1", "2", "@", "g", "m", "a", "i",
      "l", ".", "c", "o", "m">>

SeedImage1 ==
    <<"h", "t", "t", "p", "s", ":", "/", "/", "t", "4", ".", "f", "t", "c",
      "d", "n", ".", "n", "e", "t", "/", "j", "p", "g", "/", "0", "1", "/",
      "8", "0", "/", "5", "7", "/", "6", "9", "/", "3", "6", "0", "_", "F",
      "_", "1", "8", "0", "5", "7", "6", "9", "2", "0", "_", "T", "f", "I",
      "d", "X", "S", "m", "o", "B", "f", "z", "W", "8", "P", "a", "P", "f",
      "x", "q", "O", "1", "J", "d", "Y", "t", "U", "Y", "L", "I", "p", "U",
      "c", ".", "j", "p", "g">>

SeedName2 ==
    <<"T", "h", "e", " ", "C", "r", "e", "a", "t", "o", "r">>

SeedEmail2 ==
    <<"T", "a", "n", "j", "i", "r", "o", "@", "D", "S", ".", "c", "o", "m">>

SeedImage2 ==
    <<"h", "t", "t", "p", "s", ":", "/", "/", "e", "n", "c", "r", "y", "p",
      "t", "e", "d", "-", "t", "b", "n", "0", ".", "g", "s", "t", "a", "t",
      "i", "c", ".", "c", "o", "m", "/", "i", "m", "a", "g", "e", "s", "?",
      "q", "=", "t", "b", "n", ":", "A", "N", "d", "9", "G", "c", "T", "B",
      "c", "6", "_", "i", "x", "y", "l", "Z", "K", "P", "o", "9", "7", "M",
      "X", "d", "P", "_", "m", "3", "3", "B", "t", "H", "l", "o", "p", "H",
      "U", "N", "j", "B", "t", "g", "&", "s">>

\* let users = [ ... ]
SeedUsers ==
    << [_id |-> <<"1">>, name |-> SeedName1, email |-> SeedEmail1,
        image |-> SeedImage1],
       [_id |-> <<"2">>, name |-> SeedName2, email |-> SeedEmail2,
        image |-> SeedImage2] >>

\* let userIdCounter = 3
InitialCounter == 3

NAME_ANN == <<" ", "A", "n", "n">>

EMAIL_ANN_UP == <<"A", "N", "N", "@", "E", "X", ".", "c", "o", "m">>

EMAIL_ANN == <<"a", "n", "n", "@", "e", "x", ".", "c", "o", "m">>

EMAIL_TANJIRO == <<"T", "A", "N", "J", "I", "R", "O", "@", "d", "s", ".", "c", "o", "m">>

EMAIL_BAD == <<"n", "o", "t", "-", "a", "n", "-", "e", "m", "a", "i", "l">>

IMG_BAD == <<"n", "o", "t", " ", "a", " ", "u", "r", "l">>

IMG_URL == <<" ", "x", ":", "y", " ">>

(* ---------------- request inputs ---------------- *)

Body(name, email, image) == [name |-> name, email |-> email, image |-> image]

\* req.body of POST /create and POST /update/:id
Bodies ==
    { \* accepted: every field is normalised before it is stored
      Body(Str(NAME_ANN), Str(EMAIL_ANN_UP), Str(IMG_URL)),
      \* accepted, image absent
      Body(Str(NAME_ANN), Str(EMAIL_ANN), Undefined),
      \* name of whitespace only, blank image, the second seeded email
      Body(Str(<<" ">>), Str(EMAIL_TANJIRO), Str(<<" ">>)),
      \* name absent
      Body(Undefined, Str(EMAIL_TANJIRO), Undefined),
      \* email of the wrong shape
      Body(Str(NAME_ANN), Str(EMAIL_BAD), Str(<<>>)),
      \* image that is no URL
      Body(Str(NAME_ANN), Str(EMAIL_ANN_UP), Str(IMG_BAD)),
      \* name that is a number
      Body(Num, Str(EMAIL_ANN), Undefined) }

\* req.params.id: the seeded ids, one the counter hands out, a zero-padded one
Ids == { <<"1">>, <<"2">>, <<"3">>, <<"0", "3">> }

(* ---------------- the ephemeral variant ---------------- *)

\* users.findIndex(user => user._id === userId); 0 when there is none
findIndex(us, userId) ==
    IF \E i \in 1..Len(us) : us[i]._id = userId
    THEN CHOOSE i \in 1..Len(us) :
             /\ us[i]._id = userId
             /\ \A j \in 1..(i - 1) : us[j]._id # userId
    ELSE 0

\* users.find(user => user._id === userId), as a sequence of at most one user
find(us, userId) ==
    IF findIndex(us, userId) = 0 THEN <<>> ELSE <<us[findIndex(us, userId)]>>

\* splice that takes two elements out instead of one
spliceTwo(us, userIndex) ==
    SubSeq(us, 1, userIndex - 1) \o SubSeq(us, userIndex + 2, Len(us))

\* users.splice(userIndex, 1)
splice(us, userIndex) ==
    SubSeq(us, 1, userIndex - 1) \o SubSeq(us, userIndex + 1, Len(us))

\* duplicate check of create that compares the stored email as it is
existingUserExact(us, email) ==
    \E i \in 1..Len(us) : us[i].email = toLowerCase(trim(email))

\* create: users.find(user => user.email.toLowerCase() ===
\*                            email.trim().toLowerCase())
existingUser(us, email) ==
    \E i \in 1..Len(us) :
        toLowerCase(us[i].email) = toLowerCase(trim(email))

\* duplicate check of update that does not lowercase the submitted email
duplicateUserRawCase(us, email, userId) ==
    \E i \in 1..Len(us) :
        /\ toLowerCase(us[i].email) = trim(email)
        /\ us[i]._id # userId

\* update: users.find(user => user.email.toLowerCase() ===
\*                  email.trim().toLowerCase() && user._id !== userId)
duplicateUser(us, email, userId) ==
    \E i \in 1..Len(us) :
        /\ toLowerCase(us[i].email) = toLowerCase(trim(email))
        /\ us[i]._id # userId

\* if (image && image.trim()) { new URL(image.trim()) } throws
imageUrlInvalid(image) ==
    /\ image.k = "string"
    /\ Len(image.s) > 0
    /\ Len(trim(image.s)) > 0
    /\ ~UrlParses(trim(image.s))

\* image ? image.trim() : ''
storedImage(image) == IF Truthy(image) THEN trim(image.s) ELSE <<>>

\* res.status(status).json({ error }); a redirect is 302, a render 200.
\* A method call on a field that is a number throws a TypeError, which the
\* handler's catch answers with 500.
Response(status, error) == [status |-> status, error |-> error]

\* the checks of POST /create, in the order of the code
createResponse(us, body) ==
    IF ~Truthy(body.name) \/ ~Truthy(body.email)
    THEN Response(400, "Missing required fields")
    ELSE IF ~emailRegex(body.email)
    THEN Response(400, "Invalid email format")
    ELSE IF body.email.k = "number"
    THEN Response(500, "Failed to create user")
    ELSE IF existingUser(us, body.email.s)
    THEN Response(409, "Email already exists")
    ELSE IF body.image.k = "number"
    THEN Response(500, "Failed to create user")
    ELSE IF imageUrlInvalid(body.image)
    THEN Response(400, "Invalid image URL")
    ELSE IF body.name.k = "number"
    THEN Response(500, "Failed to create user")
    ELSE Response(302, "")

\* a new user whose email keeps its case
newUserKeepCase(counter, body) ==
    [_id   |-> toString(counter),
     name  |-> trim(body.name.s),
     email |-> trim(body.email.s),
     image |-> storedImage(body.image)]

\* const newUser = { _id: userIdCounter.toString(), ... }
newUser(counter, body) ==
    [_id   |-> toString(counter),
     name  |-> trim(body.name.s),
     email |-> toLowerCase(trim(body.email.s)),
     image |-> storedImage(body.image)]

\* a counter that is not advanced
nextUserIdCounterStuck(counter) == counter

\* userIdCounter++
nextUserIdCounter(counter) == counter + 1

\* the checks of POST /update/:id, in the order of the code
updateResponse(us, userId, body) ==
    IF findIndex(us, userId) = 0
    THEN Response(404, "User not found")
    ELSE IF ~Truthy(body.name) \/ ~Truthy(body.email)
    THEN Response(400, "Missing required fields")
    ELSE IF ~emailRegex(body.email)
    THEN Response(400, "Invalid email format")
    ELSE IF body.email.k = "number"
    THEN Response(500, "Failed to update user")
    ELSE IF duplicateUser(us, body.email.s, userId)
    THEN Response(409, "Email already exists")
    ELSE IF body.image.k = "number"
    THEN Response(500, "Failed to update user")
    ELSE IF imageUrlInvalid(body.image)
    THEN Response(400, "Invalid image URL")
    ELSE IF body.name.k = "number"
    THEN Response(500, "Failed to update user")
    ELSE Response(302, "")

\* users[userIndex] = { ...users[userIndex], name, email, image }
updatedUser(user, body) ==
    [_id   |-> user._id,
     name  |-> trim(body.name.s),
     email |-> toLowerCase(trim(body.email.s)),
     image |-> storedImage(body.image)]

\* an update that writes the record before the image URL is checked
updateUsersBeforeImageCheck(us, userId, body, response) ==
    IF response.status = 302 \/ response.error = "Invalid image URL"
    THEN [us EXCEPT ![findIndex(us, userId)] =
              updatedUser(us[findIndex(us, userId)], body)]
    ELSE us

\* the list after POST /update/:id has answered with `response`
updateUsers(us, userId, body, response) ==
    IF response.status = 302
    THEN [us EXCEPT ![findIndex(us, userId)] =
              updatedUser(us[findIndex(us, userId)], body)]
    ELSE us

\* the list after POST /create has answered with `response`
createUsers(us, counter, body, response) ==
    IF response.status = 302 THEN Append(us, newUser(counter, body)) ELSE us

Request(variant, op, id, body, signal) ==
    [variant |-> variant, op |-> op, id |-> id, name |-> body.name,
     email |-> body.email, image |-> body.image, signal |-> signal]

NoBody == [name |-> Undefined, email |-> Undefined, image |-> Undefined]

Init ==
    /\ users = SeedUsers
    /\ userIdCounter = InitialCounter
    /\ req = Request("none", "none", <<>>, NoBody, "none")
    /\ res = Response(0, "")
    /\ retired = {}

\* app.post('/create')
Create ==
    \E body \in Bodies :
        LET response == createResponse(users, body)
        IN  /\ response.status = 302 => userIdCounter < MaxCounter
            /\ users' = createUsers(users, userIdCounter, body, response)
            /\ userIdCounter' = IF response.status = 302
                                THEN nextUserIdCounter(userIdCounter)
                                ELSE userIdCounter
            /\ req' = Request("ephemeral", "create", <<>>, body, "none")
            /\ res' = response
            /\ UNCHANGED retired

\* app.post('/update/:id')
Update ==
    \E userId \in Ids : \E body \in Bodies :
        LET response == updateResponse(users, userId, body)
        IN  /\ users' = updateUsers(users, userId, body, response)
            /\ req' = Request("ephemeral", "update", userId, body, "none")
            /\ res' = response
            /\ UNCHANGED <<userIdCounter, retired>>

\* app.get('/delete/:id')
Delete ==
    \E userId \in Ids :
        LET userIndex == findIndex(users, userId)
        IN  /\ IF userIndex = 0
               THEN /\ res' = Response(404, "User not found")
                    /\ UNCHANGED <<users, retired>>
               ELSE /\ users' = splice(users, userIndex)
                    /\ retired' = retired \cup {users[userIndex]._id}
                    /\ res' = Response(302, "")
            /\ req' = Request("ephemeral", "delete", userId, NoBody, "none")
            /\ UNCHANGED userIdCounter

\* app.get('/edit/:id')
Edit ==
    \E userId \in Ids :
        /\ res' = IF find(users, userId) = <<>>
                  THEN Response(404, "User not found")
                  ELSE Response(200, "")
        /\ req' = Request("ephemeral", "edit", userId, NoBody, "none")
        /\ UNCHANGED <<users, userIdCounter, retired>>

(* ---------------- the durable variant ---------------- *)

\* what a call on the mongoose model settles to
CreateSignals ==
    {"Resolved", "DuplicateKey", "ValidationError", "ConnectionError"}

UpdateSignals ==
    {"Resolved", "ResolvedNull", "DuplicateKey", "ValidationError",
     "CastError", "ConnectionError"}

LookupSignals == {"Resolved", "ResolvedNull", "CastError", "ConnectionError"}

\* try { await user.<call>(...) ; if (!result) 404 ; success } catch { 500 }
durableResponse(signal, success, error) ==
    IF signal = "Resolved" THEN Response(success, "")
    ELSE IF signal = "ResolvedNull" THEN Response(404, "User not found")
    ELSE Response(500, error)

\* app.post('/create'), durable
DurableCreate ==
    \E signal \in CreateSignals :
        /\ req' = Request("durable", "create", <<>>, NoBody, signal)
        /\ res' = durableResponse(signal, 302, "Error creating user")
        /\ UNCHANGED <<users, userIdCounter, retired>>

\* app.post('/update/:id'), durable
DurableUpdate ==
    \E signal \in UpdateSignals :
        /\ req' = Request("durable", "update", <<>>, NoBody, signal)
        /\ res' = durableResponse(signal, 302, "Error updating user")
        /\ UNCHANGED <<users, userIdCounter, retired>>

\* app.get('/delete/:id'), durable
DurableDelete ==
    \E signal \in LookupSignals :
        /\ req' = Request("durable", "delete", <<>>, NoBody, signal)
        /\ res' = durableResponse(signal, 302, "Error deleting user")
        /\ UNCHANGED <<users, userIdCounter, retired>>

\* app.get('/edit/:id'), durable
DurableEdit ==
    \E signal \in LookupSignals :
        /\ req' = Request("durable", "edit", <<>>, NoBody, signal)
        /\ res' = durableResponse(signal, 200, "Error fetching user")
        /\ UNCHANGED <<users, userIdCounter, retired>>

Next ==
    \/ Create
    \/ Update
    \/ Delete
    \/ Edit
    \/ DurableCreate
    \/ DurableUpdate
    \/ DurableDelete
    \/ DurableEdit

Spec == Init /\ [][Next]_vars

(* ---------------- properties ---------------- *)

Ephemeral(r, op) == r.variant = "ephemeral" /\ r.op = op

LiveIds(us) == {us[i]._id : i \in 1..Len(us)}

SameEmail(a, b) == toLowerCase(a) = toLowerCase(b)

\* C1: in every reachable state of the ephemeral variant no two users of
\* the list have emails that are equal when compared case-insensitively.
C1_EmailUnique ==
    \A i \in 1..Len(users) : \A j \in 1..Len(users) :
        i # j => ~SameEmail(users[i].email, users[j].email)

\* three users are live after an update was accepted
C1_Witness ==
    /\ Ephemeral(req, "update")
    /\ res.status = 302
    /\ Len(users) >= 3

\* C2: in every reachable state no user of the list has an empty name or an
\* empty email, whatever payload create and update were given.
C2_NoEmptyNameOrEmail ==
    \A i \in 1..Len(users) :
        Len(users[i].name) > 0 /\ Len(users[i].email) > 0

EmailPresent(us, email) ==
    /\ email.k = "string"
    /\ \E i \in 1..Len(us) : SameEmail(us[i].email, email.s)

Rejected409(r) == r.status = 409 /\ r.error = "Email already exists"

\* C3 as stated: a create whose email equals, case-insensitively, the email
\* of a user of the list is answered 409, and the list and the counter stay.
C3_DuplicateCreateAlways409 ==
    [][ (Ephemeral(req', "create") /\ EmailPresent(users, req'.email))
          => /\ Rejected409(res')
             /\ users' = users
             /\ userIdCounter' = userIdCounter ]_vars

\* C3 amended: a create with a present, non-empty name whose email equals,
\* case-insensitively, the email of a user of the list is answered 409; a
\* create with such an email never changes the list or the counter.
C3_DuplicateCreate409 ==
    [][ (Ephemeral(req', "create") /\ EmailPresent(users, req'.email))
          => /\ Truthy(req'.name) => Rejected409(res')
             /\ users' = users
             /\ userIdCounter' = userIdCounter ]_vars

\* a create carrying the seeded mixed-case email in another case got 409
C3_Witness ==
    /\ Ephemeral(req, "create")
    /\ req.email = Str(EMAIL_TANJIRO)
    /\ Rejected409(res)
    /\ \E i \in 1..Len(users) : users[i].email = SeedEmail2

ImageAcceptable(image) ==
    \/ image.k = "undefined"
    \/ image.k = "string" /\ trim(image.s) = <<>>
    \/ image.k = "string" /\ UrlParses(trim(image.s))

ValidForCreate(us, r) ==
    /\ r.name.k = "string" /\ Len(r.name.s) > 0
    /\ r.email.k = "string" /\ emailRegex(r.email)
    /\ ~\E i \in 1..Len(us) : SameEmail(us[i].email, trim(r.email.s))
    /\ ImageAcceptable(r.image)

ExpectedImage(image) ==
    IF image.k = "undefined" \/ trim(image.s) = <<>> THEN <<>>
    ELSE trim(image.s)

\* C4: a create with a non-empty name, a well-formed email that is not
\* present and an image that is absent, blank or a URL appends exactly one
\* record: its id is the counter before the call as a string, its fields are
\* the trimmed name, the trimmed lowercased email and the trimmed image (or
\* the empty string); looking that id up returns that record.
C4_CreateStoresNormalized ==
    [][ (Ephemeral(req', "create") /\ ValidForCreate(users, req'))
          => /\ res'.status = 302
             /\ Len(users') = Len(users) + 1
             /\ SubSeq(users', 1, Len(users)) = users
             /\ LET u == users'[Len(users')]
                IN  /\ u._id = toString(userIdCounter)
                    /\ u.name = trim(req'.name.s)
                    /\ u.email = toLowerCase(trim(req'.email.s))
                    /\ u.image = ExpectedImage(req'.image)
                    /\ req'.name.s = NAME_ANN => u.name = <<"A", "n", "n">>
                    /\ req'.email.s = EMAIL_ANN_UP => u.email = EMAIL_ANN
                    /\ req'.image = Str(IMG_URL) => u.image = <<"x", ":", "y">>
                    /\ u._id \in {<<"3">>, <<"4">>, <<"5">>, <<"6">>}
                    /\ find(users', toString(userIdCounter)) = <<u>> ]_vars

\* "ANN@EX.com" was created and is stored as "ann@ex.com"
C4_Witness ==
    /\ Ephemeral(req, "create")
    /\ req.email = Str(EMAIL_ANN_UP)
    /\ res.status = 302
    /\ Len(users) > 0
    /\ users[Len(users)].email = EMAIL_ANN

\* C5: a create, update or delete that is answered with an error leaves the
\* list and the counter as they were; an update of an id that is not in the
\* list is answered 404 and changes nothing.
C5_ErrorLeavesStore ==
    [][ req'.variant = "ephemeral"
          => /\ res'.status >= 400
                  => users' = users /\ userIdCounter' = userIdCounter
             /\ (req'.op = "update" /\ req'.id \notin LiveIds(users))
                  => /\ res' = Response(404, "User not found")
                     /\ users' = users
                     /\ userIdCounter' = userIdCounter ]_vars

\* an update of an id that is not live was answered
C5_Witness ==
    /\ Ephemeral(req, "update")
    /\ req.id \notin LiveIds(users)
    /\ res.status = 404

\* C6: a delete of an id of the list removes exactly that record and keeps
\* the others in their order; the id is then not found by a lookup, and a
\* delete of an id that is not in the list is answered 404 and changes
\* nothing.
C6_DeleteRemovesOne ==
    [][ Ephemeral(req', "delete")
          => IF req'.id \in LiveIds(users)
             THEN /\ res'.status = 302
                  /\ Len(users') = Len(users) - 1
                  /\ \E k \in 1..Len(users) :
                        /\ users[k]._id = req'.id
                        /\ \A i \in 1..(k - 1) : users'[i] = users[i]
                        /\ \A i \in k..Len(users') : users'[i] = users[i + 1]
                  /\ find(users', req'.id) = <<>>
                  /\ req'.id \notin LiveIds(users')
             ELSE /\ res' = Response(404, "User not found")
                  /\ users' = users ]_vars

\* a delete of an id deleted before was answered 404
C6_Witness ==
    /\ Ephemeral(req, "delete")
    /\ req.id \in retired
    /\ res.status = 404
    /\ Len(users) > 0

UniqueIds(us) ==
    \A i \in 1..Len(us) : \A j \in 1..Len(us) :
        us[i]._id = us[j]._id => i = j

\* C7: every id of the list identifies one record, an update never changes
\* an id, a deleted id is never live again, and create hands out the counter
\* value, which only grows.
C7_IdsNeverReused ==
    [][ /\ UniqueIds(users')
        /\ Ephemeral(req', "update")
              => [i \in 1..Len(users') |-> users'[i]._id]
                     = [i \in 1..Len(users) |-> users[i]._id]
        /\ retired \subseteq retired'
        /\ LiveIds(users') \cap retired' = {}
        /\ userIdCounter' >= userIdCounter
        /\ \A id \in LiveIds(users') \ LiveIds(users) :
              /\ Ephemeral(req', "create")
              /\ id = toString(userIdCounter)
              /\ userIdCounter' = userIdCounter + 1 ]_vars

\* a user was created after a user that create had made was deleted
C7_Witness ==
    /\ Ephemeral(req, "create")
    /\ res.status = 302
    /\ <<"3">> \in retired
    /\ users[Len(users)]._id = <<"4">>

PayloadInvalid(r) ==
    \/ ~Truthy(r.name)
    \/ ~Truthy(r.email)
    \/ ~emailRegex(r.email)
    \/ imageUrlInvalid(r.image)

\* C8: a create or update whose payload fails a validation check is
\* answered 400, never 404 or 409, whatever the list holds.
C8_ValidationFirst ==
    (/\ req.variant = "ephemeral"
     /\ req.op \in {"create", "update"}
     /\ PayloadInvalid(req))
        => res.status = 400

\* C9: the durable variant answers the store's duplicate-key signal with
\* 409 and its schema-validation failure with 400.
C9_DurableStatusMapping ==
    req.variant = "durable"
        => /\ req.signal = "DuplicateKey" => res.status = 409
           /\ req.signal = "ValidationError" => res.status = 400

\* C10: in every reachable state, the seeded one included, the email of
\* every user is trimmed and equal to its lowercased form.
C10_EmailsNormalized ==
    \A i \in 1..Len(users) :
        /\ users[i].email = toLowerCase(users[i].email)
        /\ users[i].email = trim(users[i].email)

====
